---------------------------- MODULE Spec2Model ----------------------------
(***************************************************************************)
(* A state-machine model of linalg_viz.scene.scene.Scene: the entity list, *)
(* the active and original animation lists, the Timeline, the pause flag,  *)
(* the render dispatch and the capture loop of record_play.                *)
(*                                                                         *)
(* Time is counted in ticks of 0.025 s, so that the keyboard step size of  *)
(* 0.05 s is 2 ticks and a frame delta smaller than one step exists.       *)
(* Timeline and Animation are imported by scene.py from modules that are   *)
(* not part of the sources at hand; they are modelled from their           *)
(* description (sections 4.1 and 4.2 of the specification).                *)
(***************************************************************************)
EXTENDS Integers, Sequences, FiniteSets, TLC

(***************************************************************************)
(* Bounds of the model.                                                    *)
(***************************************************************************)
\* longest original-animation list that _add_animation is allowed to build
MaxAnims == 2
\* largest Timeline time / animation progress the interactive steps reach
MaxTime == 4
\* largest frame delta (in ticks) fed to _step and _update directly
MaxDt == 2
\* most positional arguments of one add(*objects) call
MaxArgs == 2
\* most iterations of the show() loop that are followed
MaxIter == 3
\* longest duration argument of record, in ticks
MaxRecord == 4
\* largest dim argument of Scene(...) that is tried
MaxDim == 4
\* largest width and height argument of Scene(...) that is tried
MaxSize == 3

(***************************************************************************)
(* Program constants.                                                      *)
(***************************************************************************)
\* self._step_size = 0.05 (seconds), in ticks
StepSize == 2
\* max_frames = 300  # Safety limit
MaxFrames == 300
\* ticks per second: 1 / 0.05 steps of StepSize ticks each
TicksPerSecond == 20 * StepSize

(***************************************************************************)
(* The objects of a run: two scenes, two entities (Vector instances) and   *)
(* three animations: a1 and a3 are VectorAnimations of e1, a2 is a         *)
(* GridTransformAnimation.  NoScene is the None of a detached entity.      *)
(* b1 and b2 are a second, identically constructed pair of animations (the *)
(* twins of a1 and a2) for a second, identically constructed scene.        *)
(***************************************************************************)
Scenes == {"S1", "S2"}
MainScene == "S1"
NoScene == "None"
Entities == {"e1", "e2"}
Anims == {"a1", "a2", "a3"}
Twins == {"b1", "b2"}
AllAnims == Anims \cup Twins
\* the animation built by the same construction code for the other scene
Twin(a) == CASE a = "a1" -> "b1" [] a = "a2" -> "b2" [] OTHER -> a
Dts == 1..MaxDt
\* fps arguments of record_play: frame_time = 1.0 / fps is 2 ticks or 1 tick
FpsValues == {20, 40}

\* isinstance(anim, VectorAnimation) / isinstance(anim, GridTransformAnimation)
AnimKind(a) == IF a \in {"a2", "b2"} THEN "grid" ELSE "vector"
\* anim._end of a VectorAnimation: the entity it animates
AnimTarget(a) == IF a \in {"a2", "b2"} THEN "grid" ELSE "e1"
\* the fixed duration of an animation, in ticks; a3 outlasts 300 frames of 1 tick
Duration(a) == CASE a \in {"a1", "b1"} -> 2
                 [] a \in {"a2", "b2"} -> 3
                 [] OTHER             -> 400

VARIABLES
    objects,              \* Scene._objects, per scene
    scene_of,             \* obj._scene, per entity
    animations,           \* Scene._animations, per scene
    original_animations,  \* Scene._original_animations, per scene
    elapsed,              \* anim._elapsed, per animation
    current_time,         \* Timeline._current_time, per scene
    tl_state,             \* the Timeline's mode, per scene
    paused,               \* Scene._paused, per scene
    recording,            \* Scene._recording, per scene
    frames,               \* len(Scene._frames), per scene
    saved,                \* whether _save_gif wrote the file, per scene
    pc,                   \* where record_play stands, per scene
    frame_count,          \* frame_count of record_play, per scene
    tail_left,            \* iterations left of "for _ in range(fps)", per scene
    fps,                  \* the fps argument of the running record_play, per scene
    expect_n,             \* main-loop frames foreseen when record_play started
    calls,                \* render-surface calls issued by the last operation
    lastOp,               \* the last operation performed
    fwd,                  \* forward single-steps taken since the last replay, or -1
    camera,               \* whether Scene._camera is at its reset view, per scene
    session,              \* the running show / record loop, per scene
    frame,                \* the running loop iteration (_update, _render), per scene
    ctor                  \* the arguments and the outcome of a Scene(...) call

vars == <<objects, scene_of, animations, original_animations, elapsed,
          current_time, tl_state, paused, recording, frames, saved, pc,
          frame_count, tail_left, fps, expect_n, calls, lastOp, fwd,
          camera, session, frame, ctor>>

extVars == <<camera, session, frame, ctor>>

sceneVars == <<objects, scene_of>>
animVars == <<animations, original_animations, elapsed>>
timeVars == <<current_time, tl_state>>
recVars == <<recording, frames, saved, pc, frame_count, tail_left, fps, expect_n>>
recData == <<recording, frames, saved, frame_count, tail_left, fps, expect_n>>

----------------------------------------------------------------------------
(***************************************************************************)
(* Python list helpers.                                                    *)
(***************************************************************************)
Min(a, b) == IF a <= b THEN a ELSE b
Max(a, b) == IF a >= b THEN a ELSE b

\* x in seq
Contains(seq, x) == \E i \in DOMAIN seq : seq[i] = x

\* seq.remove(x): drops the first occurrence of x
RemoveFirst(seq, x) ==
    LET i == CHOOSE j \in DOMAIN seq :
                 seq[j] = x /\ \A k \in 1..(j - 1) : seq[k] # x
    IN  IF Contains(seq, x)
        THEN SubSeq(seq, 1, i - 1) \o SubSeq(seq, i + 1, Len(seq))
        ELSE seq

RECURSIVE RemoveEach(_, _)
\* for anim in finished: self._animations.remove(anim)
RemoveEach(seq, fin) ==
    IF fin = <<>> THEN seq
    ELSE RemoveEach(RemoveFirst(seq, Head(fin)), Tail(fin))

\* the set of members of a list
Range(seq) == {seq[i] : i \in DOMAIN seq}

\* the argument tuples of add(*objects): one to MaxArgs entities, repeats allowed
ArgLists == UNION {[1..n -> Entities] : n \in 1..MaxArgs}

\* no show / record loop is running
NoSession == [kind |-> "none", total |-> 0, n |-> 0, dt |-> 0]

\* no loop iteration is running
NoFrame == [dt |-> 0, i |-> 0, finished |-> <<>>, back |-> "idle",
            animations |-> <<>>, elapsed |-> [a \in AllAnims |-> 0],
            current_time |-> 0]

\* Scene(dim=2, width=800, height=600), not yet called
DefaultCtor == [dim |-> 2, width |-> 800, height |-> 600, result |-> "none",
                fields |-> {}]

\* the values the fields of the scenes, entities and animations take
TypeOK ==
    /\ \A s \in Scenes :
          /\ Range(objects[s]) \subseteq Entities
          /\ Range(animations[s]) \subseteq AllAnims
          /\ Range(original_animations[s]) \subseteq AllAnims
          /\ current_time[s] \in Nat
          /\ tl_state[s] \in {"stopped", "playing", "paused"}
          /\ paused[s] \in BOOLEAN /\ recording[s] \in BOOLEAN /\ saved[s] \in BOOLEAN
          /\ frames[s] \in Nat /\ frame_count[s] \in Nat /\ tail_left[s] \in Nat
          /\ pc[s] \in {"idle", "main", "tail", "done", "show", "record", "error",
                      "update", "timeline", "anims", "remove", "render"}
          /\ camera[s] \in {"home", "moved"}
          /\ session[s].kind \in {"none", "show", "record"}
          /\ session[s].n \in Nat /\ session[s].dt \in Int /\ session[s].total \in Nat
          /\ frame[s].i \in Nat /\ frame[s].dt \in Nat
    /\ \A e \in Entities : scene_of[e] \in Scenes \cup {NoScene}
    /\ \A a \in AllAnims : elapsed[a] \in 0..Duration(a)
    /\ ctor.result \in {"none", "Scene", "ValueError", "ConfigurationError"}
    /\ ctor.dim \in Int /\ ctor.width \in Int /\ ctor.height \in Int

----------------------------------------------------------------------------
(***************************************************************************)
(* Timeline (section 4.1) and Animation (section 4.2).                     *)
(***************************************************************************)
\* Timeline.update(dt): advances the elapsed time iff playing
TimelineUpdate(mode, t, dt) == IF mode = "playing" THEN t + dt ELSE t

\* Animation.update(dt): adds dt to the progress, clamped at the duration
AnimUpdate(a, el, dt) == Min(el + dt, Duration(a))

\* Animation.is_finished: progress >= duration
IsFinished(a, el) == el >= Duration(a)


----------------------------------------------------------------------------
(***************************************************************************)
(* Pure parts of the Scene methods, on explicit values.                    *)
(***************************************************************************)
RECURSIVE AddLoopNoCheck(_, _, _, _)
\* an add that appends every argument, listed or not
AddLoopNoCheck(s, objs, lst, backref) ==
    IF objs = <<>> THEN [objects |-> lst, scene_of |-> backref]
    ELSE AddLoopNoCheck(s, Tail(objs), Append(lst, Head(objs)),
                        [backref EXCEPT ![Head(objs)] = s])

RECURSIVE AddLoop(_, _, _, _)
\* add: "for obj in objects: if obj not in self._objects: append; obj._scene = self"
AddLoop(s, objs, lst, backref) ==
    IF objs = <<>> THEN [objects |-> lst, scene_of |-> backref]
    ELSE LET obj == Head(objs)
         IN  IF ~Contains(lst, obj)
             THEN AddLoop(s, Tail(objs), Append(lst, obj),
                          [backref EXCEPT ![obj] = s])
             ELSE AddLoop(s, Tail(objs), lst, backref)

RECURSIVE ResetLoop(_, _)
\* "for anim in self._animations: anim.reset()"
ResetLoop(anims, el) ==
    IF anims = <<>> THEN el
    ELSE ResetLoop(Tail(anims), [el EXCEPT ![Head(anims)] = 0])

RECURSIVE RestoreLoopAll(_, _, _)
\* a restore that appends every original animation, active or not
RestoreLoopAll(orig, anims, el) ==
    IF orig = <<>> THEN [animations |-> anims, elapsed |-> el]
    ELSE RestoreLoopAll(Tail(orig), Append(anims, Head(orig)),
                        [el EXCEPT ![Head(orig)] = 0])

RECURSIVE RestoreLoop(_, _, _)
\* "for anim in self._original_animations: if anim not in self._animations:
\*      anim.reset(); self._animations.append(anim)"
RestoreLoop(orig, anims, el) ==
    IF orig = <<>> THEN [animations |-> anims, elapsed |-> el]
    ELSE LET anim == Head(orig)
         IN  IF ~Contains(anims, anim)
             THEN RestoreLoop(Tail(orig), Append(anims, anim),
                              [el EXCEPT ![anim] = 0])
             ELSE RestoreLoop(Tail(orig), anims, el)

\* the two loops that _replay and _step_backward share
ResetAndRestore(orig, anims, el) == RestoreLoop(orig, anims, ResetLoop(anims, el))

RECURSIVE StepLoop(_, _, _)
\* _step: "for anim in self._animations: anim.update(dt)"
StepLoop(anims, el, dt) ==
    IF anims = <<>> THEN el
    ELSE StepLoop(Tail(anims),
                  [el EXCEPT ![Head(anims)] = AnimUpdate(Head(anims), @, dt)], dt)

RECURSIVE UpdateLoop(_, _, _, _)
\* _update: "for anim in self._animations: anim.update(dt);
\*           if anim.is_finished: finished.append(anim)"
UpdateLoop(anims, el, finished, dt) ==
    IF anims = <<>> THEN [elapsed |-> el, finished |-> finished]
    ELSE LET anim == Head(anims)
             el2  == [el EXCEPT ![anim] = AnimUpdate(anim, @, dt)]
         IN  UpdateLoop(Tail(anims), el2,
                        IF IsFinished(anim, el2[anim])
                        THEN Append(finished, anim) ELSE finished,
                        dt)

\* _update(dt) on explicit values: what it leaves in the Timeline, the
\* animations' progress and the active list
UpdateResult(isPaused, mode, t, anims, el, dt) ==
    IF isPaused
    THEN [current_time |-> t, elapsed |-> el, animations |-> anims]
    ELSE LET r == UpdateLoop(anims, el, <<>>, dt)
         IN  [current_time |-> TimelineUpdate(mode, t, dt),
              elapsed      |-> r.elapsed,
              animations   |-> RemoveEach(anims, r.finished)]

\* _get_total_progress
TotalProgress(s) ==
    IF animations[s] # <<>> THEN elapsed[animations[s][1]] ELSE current_time[s]

\* the inner loop of _render_2d / _render_3d: the first VectorAnimation of the
\* active list whose _end is obj, or "none"
ActiveAnim(obj, anims) ==
    LET hits == {i \in DOMAIN anims :
                    AnimKind(anims[i]) = "vector" /\ AnimTarget(anims[i]) = obj}
    IN  IF hits = {} THEN "none"
        ELSE anims[CHOOSE i \in hits : \A j \in hits : i <= j]

\* the draw call _render_2d / _render_3d issues for one entity
DrawCall(obj, anims, el) ==
    LET active_anim == ActiveAnim(obj, anims)
    IN  IF active_anim # "none" /\ ~IsFinished(active_anim, el[active_anim])
        THEN <<"draw_animated_vector", active_anim>>
        ELSE <<"draw_vector", obj>>

\* "for anim in self._animations: if isinstance(anim, GridTransformAnimation):
\*      self._renderer.draw_transformed_grid(anim)"
GridCalls(anims) ==
    LET grid == SelectSeq(anims, LAMBDA a : AnimKind(a) = "grid")
    IN  [i \in DOMAIN grid |-> <<"draw_transformed_grid", grid[i]>>]

\* a render pass that draws the animated entities before the static ones
RenderCallsAnimatedFirst(objs, anims, el, isPaused) ==
    LET draws == [i \in DOMAIN objs |-> DrawCall(objs[i], anims, el)]
    IN  <<<<"clear">>, <<"setup_projection">>, <<"draw_grid">>>>
        \o GridCalls(anims)
        \o SelectSeq(draws, LAMBDA c : c[1] = "draw_animated_vector")
        \o SelectSeq(draws, LAMBDA c : c[1] = "draw_vector")
        \o <<<<"draw_controls_hint", isPaused>>, <<"flip">>>>

\* _render: the calls of one render pass, in the order they are issued
RenderCalls(objs, anims, el, isPaused) ==
    <<<<"clear">>, <<"setup_projection">>, <<"draw_grid">>>>
    \o GridCalls(anims)
    \o [i \in DOMAIN objs |-> DrawCall(objs[i], anims, el)]
    \o <<<<"draw_controls_hint", isPaused>>, <<"flip">>>>

----------------------------------------------------------------------------
(***************************************************************************)
(* The operations of a Scene s.  Every operation outside the loops is       *)
(* called between sessions (pc[s] = "idle"); the event handlers also run   *)
(* between two iterations of the loop of show() (pc[s] = "show").          *)
(***************************************************************************)
\* the operations that lastOp tells apart; any other is recorded as "other"
Singled == {"render", "replay", "replay_again", "step_backward", "add_again",
            "record_play", "record_frame", "loop_exit", "tail_frame",
            "record_play_end", "clear"}
OpName(op) == IF op \in Singled THEN op ELSE "other"

\* what every operation other than a forward step, a replay or a backward
\* step leaves in the observation variables
Observe(op) == lastOp' = OpName(op) /\ fwd' = -1

\* an event handler runs when called directly or from _handle_events, between
\* two iterations of the loop of show()
Handling(s) == pc[s] \in {"idle", "show"}

\* Scene.add(*objects), but for what it leaves in lastOp
AddCore(s, objs) ==
    /\ pc[s] = "idle"
    /\ LET r == AddLoop(s, objs, objects[s], scene_of)
       IN  /\ objects' = [objects EXCEPT ![s] = r.objects]
           /\ scene_of' = r.scene_of
    /\ calls' = <<>>
    /\ UNCHANGED <<extVars, animVars, timeVars, paused, recVars>>

\* Scene.add(*objects)
Add(s, objs) == AddCore(s, objs) /\ Observe("add")

\* Scene.add(*objects), telling in lastOp ("add_again") a call with an
\* argument that was already listed or that is given twice
AddTold(s, objs) ==
    /\ AddCore(s, objs)
    /\ Observe(IF \/ \E i \in DOMAIN objs : Contains(objects[s], objs[i])
                  \/ Cardinality(Range(objs)) < Len(objs)
               THEN "add_again" ELSE "add")

\* Scene.remove(obj)
Remove(s, obj) ==
    /\ pc[s] = "idle"
    /\ IF Contains(objects[s], obj)
       THEN /\ objects' = [objects EXCEPT ![s] = RemoveFirst(@, obj)]
            /\ scene_of' = [scene_of EXCEPT ![obj] = NoScene]
       ELSE UNCHANGED sceneVars
    /\ calls' = <<>>
    /\ Observe("remove")
    /\ UNCHANGED <<extVars, animVars, timeVars, paused, recVars>>

\* a clear that resets the whole scene: the original list and the Timeline too
ClearEverything(s) ==
    /\ pc[s] = "idle"
    /\ scene_of' = [e \in Entities |->
                      IF Contains(objects[s], e) THEN NoScene ELSE scene_of[e]]
    /\ objects' = [objects EXCEPT ![s] = <<>>]
    /\ animations' = [animations EXCEPT ![s] = <<>>]
    /\ original_animations' = [original_animations EXCEPT ![s] = <<>>]
    /\ current_time' = [current_time EXCEPT ![s] = 0]
    /\ tl_state' = [tl_state EXCEPT ![s] = "stopped"]
    /\ calls' = <<>>
    /\ Observe("clear")
    /\ UNCHANGED <<extVars, elapsed, paused, recVars>>

\* Scene.clear()
Clear(s) ==
    /\ pc[s] = "idle"
    /\ scene_of' = [e \in Entities |->
                      IF Contains(objects[s], e) THEN NoScene ELSE scene_of[e]]
    /\ objects' = [objects EXCEPT ![s] = <<>>]
    /\ animations' = [animations EXCEPT ![s] = <<>>]
    /\ calls' = <<>>
    /\ Observe("clear")
    /\ UNCHANGED <<extVars, original_animations, elapsed, timeVars, paused, recVars>>

\* an _add_animation that forgets the original list
AddAnimationActiveOnly(s, a) ==
    /\ pc[s] = "idle"
    /\ Len(original_animations[s]) < MaxAnims
    /\ animations' = [animations EXCEPT ![s] = Append(@, a)]
    /\ calls' = <<>>
    /\ Observe("add_animation")
    /\ UNCHANGED <<extVars, sceneVars, original_animations, elapsed, timeVars, paused, recVars>>

\* Scene._add_animation(animation)
AddAnimation(s, a) ==
    /\ pc[s] = "idle"
    /\ Len(original_animations[s]) < MaxAnims
    /\ animations' = [animations EXCEPT ![s] = Append(@, a)]
    /\ original_animations' = [original_animations EXCEPT ![s] = Append(@, a)]
    /\ calls' = <<>>
    /\ Observe("add_animation")
    /\ UNCHANGED <<extVars, sceneVars, elapsed, timeVars, paused, recVars>>

\* Scene._replay(), also the handler of K_r
Replay(s) ==
    /\ Handling(s)
    /\ LET r == ResetAndRestore(original_animations[s], animations[s], elapsed)
       IN  /\ animations' = [animations EXCEPT ![s] = r.animations]
           /\ elapsed' = r.elapsed
    \* self._timeline.stop(); self._timeline.play()
    /\ current_time' = [current_time EXCEPT ![s] = 0]
    /\ tl_state' = [tl_state EXCEPT ![s] = "playing"]
    /\ paused' = [paused EXCEPT ![s] = FALSE]
    /\ calls' = <<>>
    /\ lastOp' = IF lastOp \in {"replay", "replay_again"}
                 THEN "replay_again" ELSE "replay"
    /\ fwd' = 0
    /\ UNCHANGED <<extVars, sceneVars, original_animations, recVars>>

\* the guard that keeps the clocks of the interactive steps within MaxTime
WithinTime(s, dt) ==
    /\ current_time[s] + dt <= MaxTime
    /\ \A a \in Range(animations[s]) : AnimUpdate(a, elapsed[a], dt) <= MaxTime

\* the forward steps counted since the last replay, after one more
FwdAfterStep(dt) ==
    IF dt = StepSize /\ fwd >= 0 /\ lastOp # "step_backward" THEN fwd + 1 ELSE -1

\* Scene._step(dt)
Step(s, dt) ==
    /\ pc[s] = "idle"
    /\ WithinTime(s, dt)
    /\ current_time' = [current_time EXCEPT ![s] = TimelineUpdate(tl_state[s], @, dt)]
    /\ elapsed' = StepLoop(animations[s], elapsed, dt)
    /\ calls' = <<>>
    /\ lastOp' = OpName("step")
    /\ fwd' = FwdAfterStep(dt)
    /\ UNCHANGED <<extVars, sceneVars, animations, original_animations, tl_state, paused, recVars>>

\* the K_RIGHT handler: self._paused = True; self._step(self._step_size)
KeyRight(s) ==
    /\ Handling(s)
    /\ WithinTime(s, StepSize)
    /\ paused' = [paused EXCEPT ![s] = TRUE]
    /\ current_time' = [current_time EXCEPT
                          ![s] = TimelineUpdate(tl_state[s], @, StepSize)]
    /\ elapsed' = StepLoop(animations[s], elapsed, StepSize)
    /\ calls' = <<>>
    /\ lastOp' = OpName("step")
    /\ fwd' = FwdAfterStep(StepSize)
    /\ UNCHANGED <<extVars, sceneVars, animations, original_animations, tl_state, recVars>>

\* the K_SPACE handler: self._paused = not self._paused
KeySpace(s) ==
    /\ Handling(s)
    /\ paused' = [paused EXCEPT ![s] = ~@]
    /\ calls' = <<>>
    /\ Observe("toggle_pause")
    /\ UNCHANGED <<extVars, sceneVars, animVars, timeVars, recVars>>

\* the K_c handler: self._camera.reset()
KeyC(s) ==
    /\ Handling(s)
    /\ camera' = [camera EXCEPT ![s] = "home"]
    /\ calls' = <<>>
    /\ Observe("camera_reset")
    /\ UNCHANGED <<sceneVars, animVars, timeVars, paused, recVars, session, frame, ctor>>

\* the MOUSEMOTION handler while dragging: self._camera.pan / orbit, which
\* takes the view away from the reset one
MouseDrag(s) ==
    /\ Handling(s)
    /\ camera' = [camera EXCEPT ![s] = "moved"]
    /\ calls' = <<>>
    /\ Observe("camera_move")
    /\ UNCHANGED <<sceneVars, animVars, timeVars, paused, recVars, session, frame, ctor>>

\* Scene._step_backward(), also the handler of K_LEFT
StepBackward(s) ==
    /\ Handling(s)
    /\ LET current_progress == TotalProgress(s)
           target_progress  == Max(0, current_progress - StepSize)
           r == ResetAndRestore(original_animations[s], animations[s], elapsed)
       IN  /\ animations' = [animations EXCEPT ![s] = r.animations]
           \* self._timeline.stop(), then _step(target_progress) on a stopped
           \* Timeline
           /\ tl_state' = [tl_state EXCEPT ![s] = "stopped"]
           /\ current_time' = [current_time EXCEPT ![s] =
                                 IF target_progress > 0
                                 THEN TimelineUpdate("stopped", 0, target_progress)
                                 ELSE 0]
           /\ elapsed' = IF target_progress > 0
                         THEN StepLoop(r.animations, r.elapsed, target_progress)
                         ELSE r.elapsed
    /\ paused' = [paused EXCEPT ![s] = TRUE]
    /\ calls' = <<>>
    /\ lastOp' = "step_backward"
    /\ fwd' = IF fwd >= 0 /\ lastOp # "step_backward" THEN fwd ELSE -1
    /\ UNCHANGED <<extVars, sceneVars, original_animations, recVars>>

\* Scene._update(dt)
Update(s, dt) ==
    /\ pc[s] = "idle"
    /\ WithinTime(s, dt)
    /\ LET r == UpdateResult(paused[s], tl_state[s], current_time[s],
                             animations[s], elapsed, dt)
       IN  /\ current_time' = [current_time EXCEPT ![s] = r.current_time]
           /\ elapsed' = r.elapsed
           /\ animations' = [animations EXCEPT ![s] = r.animations]
    /\ calls' = <<>>
    /\ Observe("update")
    /\ UNCHANGED <<extVars, sceneVars, original_animations, tl_state, paused, recVars>>

\* Scene._render()
Render(s) ==
    /\ pc[s] = "idle"
    /\ calls' = RenderCalls(objects[s], animations[s], elapsed, paused[s])
    /\ Observe("render")
    /\ UNCHANGED <<extVars, sceneVars, animVars, timeVars, paused, recVars>>

\* Scene.play() up to the loop of show(): self._timeline.play()
Play(s) ==
    /\ pc[s] = "idle"
    /\ tl_state' = [tl_state EXCEPT ![s] = "playing"]
    /\ calls' = <<>>
    /\ Observe("play")
    /\ UNCHANGED <<extVars, sceneVars, animVars, current_time, paused, recVars>>

----------------------------------------------------------------------------
(***************************************************************************)
(* record_play(filename, fps), one loop iteration per step.  The session   *)
(* ends the scene's life: nothing is called on it after pc[s] = "done".    *)
(***************************************************************************)
\* frame_time = 1.0 / fps, in ticks
FrameTime(f) == TicksPerSecond \div f

\* the fixed-delta updates after which an animation with progress el reports
\* finished: at least one, since _update looks at is_finished after update(dt)
UpdatesToFinish(a, el, dt) ==
    Max(1, (Duration(a) - el + dt - 1) \div dt)

\* the main-loop frames to foresee for a scene with the active list anims that
\* lists no animation twice: none for an empty list, MaxFrames when paused,
\* else the updates until the last animation finishes, capped at MaxFrames;
\* -1 (no forecast) when an animation is listed twice
ExpectedFrames(anims, el, isPaused, dt) ==
    IF anims = <<>> THEN 0
    ELSE IF \E i, j \in DOMAIN anims : i # j /\ anims[i] = anims[j] THEN -1
    ELSE IF isPaused THEN MaxFrames
    ELSE LET need == {UpdatesToFinish(a, el[a], dt) : a \in Range(anims)}
         IN  Min(MaxFrames, CHOOSE n \in need : \A m \in need : m <= n)

\* _capture_frame: appends a frame iff self._recording
CaptureFrame(s) == IF recording[s] THEN frames[s] + 1 ELSE frames[s]

\* a loop condition that forgets the safety limit
LoopConditionNoLimit(s) == animations[s] # <<>>

\* "while self._animations and frame_count < max_frames"
LoopCondition(s) == animations[s] # <<>> /\ frame_count[s] < MaxFrames

\* record_play, up to the main loop
RecordPlayStart(s, f) ==
    /\ pc[s] = "idle"
    /\ recording' = [recording EXCEPT ![s] = TRUE]
    /\ frames' = [frames EXCEPT ![s] = 0]
    /\ tl_state' = [tl_state EXCEPT ![s] = "playing"]
    /\ fps' = [fps EXCEPT ![s] = f]
    /\ frame_count' = [frame_count EXCEPT ![s] = 0]
    /\ tail_left' = [tail_left EXCEPT ![s] = f]
    /\ pc' = [pc EXCEPT ![s] = "main"]
    /\ expect_n' = [expect_n EXCEPT ![s] =
                      ExpectedFrames(animations[s], elapsed, paused[s], FrameTime(f))]
    /\ calls' = <<>>
    /\ Observe("record_play")
    /\ UNCHANGED <<extVars, sceneVars, animVars, current_time, paused, saved>>

\* one iteration of "while self._animations and frame_count < max_frames":
\* _update(frame_time), _render(), _capture_frame(), frame_count += 1
RecordPlayFrame(s) ==
    /\ pc[s] = "main"
    /\ LoopCondition(s)
    /\ LET r == UpdateResult(paused[s], tl_state[s], current_time[s],
                             animations[s], elapsed, FrameTime(fps[s]))
       IN  /\ current_time' = [current_time EXCEPT ![s] = r.current_time]
           /\ elapsed' = r.elapsed
           /\ animations' = [animations EXCEPT ![s] = r.animations]
           /\ calls' = RenderCalls(objects[s], r.animations, r.elapsed, paused[s])
    /\ frames' = [frames EXCEPT ![s] = CaptureFrame(s)]
    /\ frame_count' = [frame_count EXCEPT ![s] = @ + 1]
    /\ Observe("record_frame")
    /\ UNCHANGED <<extVars, sceneVars, original_animations, tl_state, paused, recording,
                   saved, pc, tail_left, fps, expect_n>>

\* the while condition is false: on to "for _ in range(fps)"
RecordPlayLoopExit(s) ==
    /\ pc[s] = "main"
    /\ ~LoopCondition(s)
    /\ pc' = [pc EXCEPT ![s] = "tail"]
    /\ calls' = <<>>
    /\ Observe("loop_exit")
    /\ UNCHANGED <<extVars, sceneVars, animVars, timeVars, paused, recording, frames, saved,
                   frame_count, tail_left, fps, expect_n>>

\* one iteration of "for _ in range(fps)": _render(), _capture_frame()
RecordPlayTailFrame(s) ==
    /\ pc[s] = "tail"
    /\ tail_left[s] > 0
    /\ calls' = RenderCalls(objects[s], animations[s], elapsed, paused[s])
    /\ frames' = [frames EXCEPT ![s] = CaptureFrame(s)]
    /\ tail_left' = [tail_left EXCEPT ![s] = @ - 1]
    /\ Observe("tail_frame")
    /\ UNCHANGED <<extVars, sceneVars, animVars, timeVars, paused, recording, saved, pc,
                   frame_count, fps, expect_n>>

\* the end of record_play: _save_gif (writes iff frames were captured),
\* self._recording = False
RecordPlayEnd(s) ==
    /\ pc[s] = "tail"
    /\ tail_left[s] = 0
    /\ saved' = [saved EXCEPT ![s] = (frames[s] > 0)]
    /\ recording' = [recording EXCEPT ![s] = FALSE]
    /\ pc' = [pc EXCEPT ![s] = "done"]
    /\ calls' = <<>>
    /\ Observe("record_play_end")
    /\ UNCHANGED <<extVars, sceneVars, animVars, timeVars, paused, frames, frame_count,
                   tail_left, fps, expect_n>>

----------------------------------------------------------------------------
(***************************************************************************)
(* show() / play() and record(filename, duration, fps): the two loops.     *)
(* One iteration is followed call by call through _update and _render:     *)
(* pc[s] is "timeline", "anims" or "render" inside an iteration, frame[s]  *)
(* holds the delta, the loop index and the finished list of _update, and   *)
(* what the Timeline, the progress and the active list were when the       *)
(* iteration began.  session[s] counts the iterations run.                 *)
(***************************************************************************)
\* fps arguments of record; 1.0 / fps raises ZeroDivisionError for 0
RecordFps == {0, 20, 40}
\* duration arguments of record, in ticks
RecordDurations == 0..MaxRecord

\* total_frames = int(duration * fps), for a duration in ticks
TotalFrames(d, f) == (d * f) \div TicksPerSecond

\* what an iteration keeps of the state it began in
FrameOf(s, dt, back) ==
    [dt |-> dt, i |-> 0, finished |-> <<>>, back |-> back,
     animations |-> animations[s], elapsed |-> elapsed,
     current_time |-> current_time[s]]

\* show(), up to its loop: _init_pygame(), self._running = True
\* (play() is Play, then Show)
Show(s) ==
    /\ pc[s] = "idle"
    /\ pc' = [pc EXCEPT ![s] = "show"]
    /\ session' = [session EXCEPT ![s] = [NoSession EXCEPT !.kind = "show"]]
    /\ calls' = <<>>
    /\ Observe("show")
    /\ UNCHANGED <<sceneVars, animVars, timeVars, paused, recData, camera, frame, ctor>>

\* the QUIT / K_ESCAPE event: self._running = False, the loop of show() ends
Quit(s) ==
    /\ pc[s] = "show"
    /\ pc' = [pc EXCEPT ![s] = "done"]
    /\ calls' = <<>>
    /\ Observe("quit")
    /\ UNCHANGED <<sceneVars, animVars, timeVars, paused, recData, extVars>>

\* an iteration of the loop of show() whose _update ignores the paused flag
ShowIterationIgnorePause(s, dt) ==
    /\ pc[s] = "show"
    /\ session[s].n < MaxIter
    /\ WithinTime(s, dt)
    /\ pc' = [pc EXCEPT ![s] = "timeline"]
    /\ frame' = [frame EXCEPT ![s] = FrameOf(s, dt, "show")]
    /\ calls' = <<>>
    /\ Observe("iteration")
    /\ UNCHANGED <<sceneVars, animVars, timeVars, paused, recData, camera, session, ctor>>

\* one iteration of the loop of show(), with no event in the queue:
\* dt = self._clock.tick(60) / 1000.0, _handle_events(), into _update(dt)
\* ("if self._paused: return" leads straight to _render)
ShowIteration(s, dt) ==
    /\ pc[s] = "show"
    /\ session[s].n < MaxIter
    /\ WithinTime(s, dt)
    /\ pc' = [pc EXCEPT ![s] = IF paused[s] THEN "render" ELSE "timeline"]
    /\ frame' = [frame EXCEPT ![s] = FrameOf(s, dt, "show")]
    /\ calls' = <<>>
    /\ Observe("iteration")
    /\ UNCHANGED <<sceneVars, animVars, timeVars, paused, recData, camera, session, ctor>>

\* record, up to its loop
RecordStart(s, d, f) ==
    /\ pc[s] = "idle"
    /\ recording' = [recording EXCEPT ![s] = TRUE]
    /\ frames' = [frames EXCEPT ![s] = 0]
    /\ tl_state' = [tl_state EXCEPT ![s] = "playing"]
    /\ fps' = [fps EXCEPT ![s] = f]
    \* frame_time = 1.0 / fps raises for fps = 0, before total_frames is set
    /\ pc' = [pc EXCEPT ![s] = IF f = 0 THEN "error" ELSE "record"]
    /\ session' = [session EXCEPT ![s] =
                      [kind |-> "record", total |-> TotalFrames(d, f), n |-> 0,
                       dt |-> IF f = 0 THEN 0 ELSE FrameTime(f)]]
    /\ calls' = <<>>
    /\ Observe("record")
    /\ UNCHANGED <<sceneVars, animVars, current_time, paused, saved, frame_count,
                   tail_left, expect_n, camera, frame, ctor>>

\* an iteration of the record loop that renders and captures without _update
RecordIterationNoUpdate(s) ==
    /\ pc[s] = "record"
    /\ session[s].n < session[s].total
    /\ pc' = [pc EXCEPT ![s] = "render"]
    /\ frame' = [frame EXCEPT ![s] = FrameOf(s, session[s].dt, "record")]
    /\ calls' = <<>>
    /\ Observe("iteration")
    /\ UNCHANGED <<sceneVars, animVars, timeVars, paused, recData, camera, session, ctor>>

\* one iteration of "for _ in range(total_frames)": pygame.event.pump(),
\* into _update(frame_time)
RecordIteration(s) ==
    /\ pc[s] = "record"
    /\ session[s].n < session[s].total
    /\ pc' = [pc EXCEPT ![s] = IF paused[s] THEN "render" ELSE "timeline"]
    /\ frame' = [frame EXCEPT ![s] = FrameOf(s, session[s].dt, "record")]
    /\ calls' = <<>>
    /\ Observe("iteration")
    /\ UNCHANGED <<sceneVars, animVars, timeVars, paused, recData, camera, session, ctor>>

\* _update: self._timeline.update(dt)
UpdateTimeline(s) ==
    /\ pc[s] = "timeline"
    /\ current_time' = [current_time EXCEPT
                          ![s] = TimelineUpdate(tl_state[s], @, frame[s].dt)]
    /\ frame' = [frame EXCEPT ![s].i = 1]
    /\ pc' = [pc EXCEPT ![s] = "anims"]
    /\ calls' = <<>>
    /\ Observe("update_timeline")
    /\ UNCHANGED <<sceneVars, animVars, tl_state, paused, recording, frames, saved,
                   frame_count, tail_left, fps, expect_n, camera, session, ctor>>

\* an iteration of the loop of _update that ends the update after it
UpdateAnimThenRender(s) ==
    /\ pc[s] = "anims"
    /\ frame[s].i <= Len(animations[s])
    /\ LET anim == animations[s][frame[s].i]
       IN  elapsed' = [elapsed EXCEPT ![anim] = AnimUpdate(anim, @, frame[s].dt)]
    /\ pc' = [pc EXCEPT ![s] = "render"]
    /\ calls' = <<>>
    /\ Observe("update_anim")
    /\ UNCHANGED <<sceneVars, animations, original_animations, timeVars, paused,
                   recData, camera, session, frame, ctor>>

\* an iteration of the loop of _update that removes a finished animation from
\* the list it is iterating over
UpdateAnimRemoveNow(s) ==
    /\ pc[s] = "anims"
    /\ frame[s].i <= Len(animations[s])
    /\ LET anim == animations[s][frame[s].i]
           el2  == AnimUpdate(anim, elapsed[anim], frame[s].dt)
       IN  /\ elapsed' = [elapsed EXCEPT ![anim] = el2]
           /\ frame' = [frame EXCEPT ![s].i = @ + 1]
           /\ animations' = [animations EXCEPT
                               ![s] = IF IsFinished(anim, el2)
                                      THEN RemoveFirst(@, anim) ELSE @]
    /\ calls' = <<>>
    /\ Observe("update_anim")
    /\ UNCHANGED <<sceneVars, original_animations, timeVars, paused,
                   recVars, camera, session, ctor>>

\* _update, one iteration of "for anim in self._animations":
\* anim.update(dt); if anim.is_finished: finished.append(anim)
UpdateAnim(s) ==
    /\ pc[s] = "anims"
    /\ frame[s].i <= Len(animations[s])
    /\ LET anim == animations[s][frame[s].i]
           el2  == AnimUpdate(anim, elapsed[anim], frame[s].dt)
       IN  /\ elapsed' = [elapsed EXCEPT ![anim] = el2]
           /\ frame' = [frame EXCEPT
                          ![s].i = @ + 1,
                          ![s].finished = IF IsFinished(anim, el2)
                                          THEN Append(@, anim) ELSE @]
    /\ calls' = <<>>
    /\ Observe("update_anim")
    /\ UNCHANGED <<sceneVars, animations, original_animations, timeVars, paused,
                   recVars, camera, session, ctor>>

\* _update, after the loop: "for anim in finished: self._animations.remove(anim)"
UpdateRemove(s) ==
    /\ pc[s] = "anims"
    /\ frame[s].i > Len(animations[s])
    /\ animations' = [animations EXCEPT ![s] = RemoveEach(@, frame[s].finished)]
    /\ pc' = [pc EXCEPT ![s] = "render"]
    /\ calls' = <<>>
    /\ Observe("update_remove")
    /\ UNCHANGED <<sceneVars, original_animations, elapsed, timeVars, paused,
                   recording, frames, saved, frame_count, tail_left, fps, expect_n,
                   extVars>>

\* the delta every iteration of the session was given, after one more with
\* dt: 0 before the first, -1 once two deltas differ
CommonDt(s, dt) ==
    IF session[s].n = 0 \/ session[s].dt = dt THEN dt ELSE -1

\* the rest of the iteration: _render(), in record also _capture_frame()
RenderAndCapture(s) ==
    /\ pc[s] = "render"
    /\ calls' = RenderCalls(objects[s], animations[s], elapsed, paused[s])
    /\ frames' = [frames EXCEPT ![s] = IF frame[s].back = "record"
                                       THEN CaptureFrame(s) ELSE @]
    /\ session' = [session EXCEPT ![s].n = @ + 1,
                                  ![s].dt = CommonDt(s, frame[s].dt)]
    /\ pc' = [pc EXCEPT ![s] = frame[s].back]
    /\ frame' = [frame EXCEPT ![s] = NoFrame]
    /\ Observe("iteration_end")
    /\ UNCHANGED <<sceneVars, animVars, timeVars, paused, recording, saved,
                   frame_count, tail_left, fps, expect_n, camera, ctor>>

\* the end of record: _save_gif (writes iff frames were captured),
\* pygame.quit(), self._recording = False
RecordEnd(s) ==
    /\ pc[s] = "record"
    /\ session[s].n >= session[s].total
    /\ saved' = [saved EXCEPT ![s] = (frames[s] > 0)]
    /\ recording' = [recording EXCEPT ![s] = FALSE]
    /\ pc' = [pc EXCEPT ![s] = "done"]
    /\ calls' = <<>>
    /\ Observe("record_end")
    /\ UNCHANGED <<sceneVars, animVars, timeVars, paused, frames, frame_count,
                   tail_left, fps, expect_n, extVars>>

----------------------------------------------------------------------------
(***************************************************************************)
(* Scene(dim, width, height): the constructor, on arguments of any value.  *)
(***************************************************************************)
\* the dim, width and height arguments that are tried
Dims == 0..MaxDim
Sizes == (0 - 1)..MaxSize

\* the attributes __init__ sets, in the order it sets them
SceneFields == {"_dim", "_width", "_height", "_title", "_objects", "_animations",
                "_original_animations", "_timeline", "_recording", "_frames",
                "_camera", "_grid", "_renderer", "_running", "_paused",
                "_screen", "_clock", "_show_grid", "_step_size", "_dragging",
                "_last_mouse_pos"}

\* Camera2D(width, height), Camera3D(width, height), Renderer2D(width, height),
\* Renderer3D(width, height): no error condition (section 4.3)
ViewInit(width, height) == "ok"

\* an __init__ that tests dim after it has set up the lists and the Timeline
SceneInitLateCheck(dim, width, height) ==
    IF dim \notin {2, 3}
    THEN [result |-> "ValueError",
          fields |-> {"_dim", "_width", "_height", "_title", "_objects",
                      "_animations", "_original_animations", "_timeline"}]
    ELSE [result |-> "Scene", fields |-> SceneFields]

\* Scene.__init__: "if dim not in (2, 3): raise ValueError(...)", then the
\* attributes; width and height are only stored and handed on
SceneInit(dim, width, height) ==
    IF dim \notin {2, 3}
    THEN [result |-> "ValueError", fields |-> {}]
    ELSE IF ViewInit(width, height) # "ok"
    THEN [result |-> "ConfigurationError",
          fields |-> {"_dim", "_width", "_height", "_title", "_objects",
                      "_animations", "_original_animations", "_timeline",
                      "_recording", "_frames"}]
    ELSE [result |-> "Scene", fields |-> SceneFields]

\* a call Scene(dim, width, height) with the arguments held by ctor
Construct ==
    /\ ctor.result = "none"
    /\ LET r == SceneInit(ctor.dim, ctor.width, ctor.height)
       IN  ctor' = [ctor EXCEPT !.result = r.result, !.fields = r.fields]
    /\ calls' = <<>>
    /\ Observe("construct")
    /\ UNCHANGED <<sceneVars, animVars, timeVars, paused, recVars, camera, session,
                   frame>>

----------------------------------------------------------------------------
\* the state after Scene.__init__ of both scenes, with fresh entities and
\* animations
InitScenes ==
    /\ objects = [s \in Scenes |-> <<>>]
    /\ scene_of = [e \in Entities |-> NoScene]
    /\ animations = [s \in Scenes |-> <<>>]
    /\ original_animations = [s \in Scenes |-> <<>>]
    /\ elapsed = [a \in AllAnims |-> 0]
    /\ current_time = [s \in Scenes |-> 0]
    /\ tl_state = [s \in Scenes |-> "stopped"]
    /\ paused = [s \in Scenes |-> FALSE]
    /\ recording = [s \in Scenes |-> FALSE]
    /\ frames = [s \in Scenes |-> 0]
    /\ saved = [s \in Scenes |-> FALSE]
    /\ pc = [s \in Scenes |-> "idle"]
    /\ frame_count = [s \in Scenes |-> 0]
    /\ tail_left = [s \in Scenes |-> 0]
    /\ fps = [s \in Scenes |-> 0]
    /\ expect_n = [s \in Scenes |-> 0]
    /\ calls = <<>>
    /\ lastOp = "init"
    /\ fwd = -1
    /\ camera = [s \in Scenes |-> "home"]
    /\ session = [s \in Scenes |-> NoSession]
    /\ frame = [s \in Scenes |-> NoFrame]

Init == InitScenes /\ ctor = DefaultCtor

\* the same, before a constructor call with arguments of any value
InitConstruct ==
    /\ InitScenes
    /\ ctor \in {[dim |-> d, width |-> w, height |-> h, result |-> "none",
                   fields |-> {}] : d \in Dims, w \in Sizes, h \in Sizes}

\* constructor calls
NextConstruct == Construct

SpecConstruct == InitConstruct /\ [][NextConstruct]_vars

\* two scenes that share the entities: the container operations of both
NextScenes ==
    \E s \in Scenes :
        \/ \E objs \in ArgLists : AddTold(s, objs)
        \/ \E e \in Entities : Remove(s, e)
        \/ Clear(s)

SpecScenes == Init /\ [][NextScenes]_vars

\* one scene that is set up (animations, keys of an earlier interactive
\* session) and then recorded with record_play
NextRecord ==
    \/ \E a \in Anims : AddAnimation(MainScene, a)
    \/ KeySpace(MainScene)
    \/ KeyRight(MainScene)
    \/ \E f \in FpsValues : RecordPlayStart(MainScene, f)
    \/ RecordPlayFrame(MainScene)
    \/ RecordPlayLoopExit(MainScene)
    \/ RecordPlayTailFrame(MainScene)
    \/ RecordPlayEnd(MainScene)

SpecRecord == Init /\ [][NextRecord]_vars

\* the steps of record_play: straight-line code that runs on once started
RecordStep(s) ==
    \/ RecordPlayFrame(s)
    \/ RecordPlayLoopExit(s)
    \/ RecordPlayTailFrame(s)
    \/ RecordPlayEnd(s)

SpecRecordFair == SpecRecord /\ WF_vars(RecordStep(MainScene))

\* the same, on a scene that also holds entities
NextRecordScene ==
    \/ NextRecord
    \/ \E e \in Entities : Add(MainScene, <<e>>)

SpecRecordScene == Init /\ [][NextRecordScene]_vars

\* one scene, driven through its operations in any order (entities are
\* added one per call here: add(e, f) leaves what add(e), add(f) leave)
Next ==
    \/ \E e \in Entities : Add(MainScene, <<e>>)
    \/ \E e \in Entities : Remove(MainScene, e)
    \/ Clear(MainScene)
    \/ \E a \in Anims : AddAnimation(MainScene, a)
    \/ Replay(MainScene)
    \/ \E dt \in Dts : Step(MainScene, dt)
    \/ KeyRight(MainScene)
    \/ KeySpace(MainScene)
    \/ StepBackward(MainScene)
    \/ \E dt \in Dts : Update(MainScene, dt)
    \/ Play(MainScene)

Spec == Init /\ [][Next]_vars

\* the same, with render passes in between
NextRender ==
    \/ Next
    \/ Render(MainScene)

SpecRender == Init /\ [][NextRender]_vars

\* one scene whose entity list and animation lists are built and reordered
\* (remove and add again, replay), with render passes in between
NextDraw ==
    \/ \E e \in Entities : Add(MainScene, <<e>>)
    \/ \E e \in Entities : Remove(MainScene, e)
    \/ \E a \in Anims : AddAnimation(MainScene, a)
    \/ Replay(MainScene)
    \/ KeyRight(MainScene)
    \/ \E dt \in Dts : Update(MainScene, dt)
    \/ Render(MainScene)

SpecDraw == Init /\ [][NextDraw]_vars

\* a scene with entities (some also added to the other scene), animations,
\* a moved camera and a clock that has run, which is then cleared
NextClear ==
    \/ \E e \in Entities : Add(MainScene, <<e>>)
    \/ Add("S2", <<"e1", "e2">>)
    \/ \E a \in Anims : AddAnimation(MainScene, a)
    \/ Play(MainScene)
    \/ KeyRight(MainScene)
    \/ MouseDrag(MainScene)
    \/ KeyC(MainScene)
    \/ Clear(MainScene)

SpecClear == Init /\ [][NextClear]_vars

\* the steps of one loop iteration, once it has begun
IterationStep(s) ==
    \/ UpdateTimeline(s)
    \/ UpdateAnim(s)
    \/ UpdateRemove(s)
    \/ RenderAndCapture(s)

\* one scene that is set up and then driven by one of the two loops: show()
\* or play(), with key events between the iterations, or record
NextLoop ==
    \/ \E a \in Anims : AddAnimation(MainScene, a)
    \/ Clear(MainScene)
    \/ Replay(MainScene)
    \/ StepBackward(MainScene)
    \/ KeySpace(MainScene)
    \/ Play(MainScene)
    \/ Show(MainScene)
    \/ Quit(MainScene)
    \/ \E dt \in Dts : ShowIteration(MainScene, dt)
    \/ \E d \in RecordDurations, f \in RecordFps : RecordStart(MainScene, d, f)
    \/ RecordIteration(MainScene)
    \/ IterationStep(MainScene)
    \/ RecordEnd(MainScene)

SpecLoop == Init /\ [][NextLoop]_vars

\* two scenes built by the same construction code (S2 from the twins of the
\* animations of S1): S1 is shown with play() and an empty event queue, S2
\* is captured with record or record_play.  The scenes share nothing, so the
\* order in which their steps interleave is immaterial: frame n + 1 of S1 is
\* run when both have run n frames, and then frame n + 1 of S2.
NextTwin ==
    \/ \E a \in Anims \ {"a3"} : AddAnimation("S1", a)
    \/ \E b \in Twins : AddAnimation("S2", b)
    \/ Play("S1")
    \/ Show("S1")
    \/ \E dt \in Dts :
          /\ pc["S2"] \in {"record", "main"}
          /\ session["S1"].n = session["S2"].n + frame_count["S2"]
          /\ ShowIteration("S1", dt)
    \/ IterationStep("S1")
    \/ \E d \in RecordDurations, f \in FpsValues : RecordStart("S2", d, f)
    \/ /\ pc["S1"] = "show" /\ session["S1"].n = session["S2"].n + 1
       /\ RecordIteration("S2")
    \/ IterationStep("S2")
    \/ RecordEnd("S2")
    \/ \E f \in FpsValues : RecordPlayStart("S2", f)
    \/ /\ pc["S1"] = "show" /\ session["S1"].n = frame_count["S2"] + 1
       /\ RecordPlayFrame("S2")
    \/ RecordPlayLoopExit("S2")

SpecTwin == Init /\ [][NextTwin]_vars

\* one scene that is set up and then shown, with key and mouse events between
\* the iterations of the loop
NextShow ==
    \/ \E a \in Anims : AddAnimation(MainScene, a)
    \/ Play(MainScene)
    \/ Show(MainScene)
    \/ Quit(MainScene)
    \/ KeySpace(MainScene)
    \/ KeyRight(MainScene)
    \/ StepBackward(MainScene)
    \/ Replay(MainScene)
    \/ KeyC(MainScene)
    \/ MouseDrag(MainScene)
    \/ \E dt \in Dts : ShowIteration(MainScene, dt)
    \/ IterationStep(MainScene)

SpecShow == Init /\ [][NextShow]_vars


----------------------------------------------------------------------------
(***************************************************************************)
(* Properties.                                                             *)
(***************************************************************************)
\* a list without repeated members
NoDup(seq) == \A i, j \in DOMAIN seq : seq[i] = seq[j] => i = j

\* the last operation was a replay
JustReplayed == lastOp \in {"replay", "replay_again"}

\* C1: after replay() the active list is exactly the original list (same
\* members in the registration order), every original animation is idle, and
\* the Timeline is playing at 0.  Stated for original lists that register each
\* animation once.
ReplayRestoresOriginal ==
    (JustReplayed /\ NoDup(original_animations[MainScene])) =>
        /\ animations[MainScene] = original_animations[MainScene]
        /\ \A a \in Range(original_animations[MainScene]) : elapsed[a] = 0
        /\ current_time[MainScene] = 0
        /\ tl_state[MainScene] = "playing"

\* C2: k forward steps of StepSize from a freshly replayed scene, then one
\* stepBackward(), leave the aggregate progress at max(0, (k-1)*StepSize).
StepBackwardLeftInverse ==
    (lastOp = "step_backward" /\ fwd >= 0) =>
        TotalProgress(MainScene) = Max(0, (fwd - 1) * StepSize)

\* the render pass just performed drew obj animated
DrawnAnimated(obj) ==
    \E k \in DOMAIN calls :
        /\ calls[k][1] = "draw_animated_vector"
        /\ AnimTarget(calls[k][2]) = obj

\* the active list of s holds an unfinished VectorAnimation whose target is obj
HasUnfinishedVectorAnimation(s, obj) ==
    \E i \in DOMAIN animations[s] :
        /\ AnimKind(animations[s][i]) = "vector"
        /\ AnimTarget(animations[s][i]) = obj
        /\ ~IsFinished(animations[s][i], elapsed[animations[s][i]])

\* C3: a render pass draws an entity animated if and only if the active list
\* holds an unfinished VectorAnimation that targets it.
RenderDispatch ==
    lastOp = "render" =>
        \A obj \in Range(objects[MainScene]) :
            DrawnAnimated(obj) <=> HasUnfinishedVectorAnimation(MainScene, obj)

\* C4: every animation of the active list is in the original list.
ActiveSubsetOfOriginal ==
    \A s \in Scenes : Range(animations[s]) \subseteq Range(original_animations[s])

\* C4, the case: some animations have finished and left the active list,
\* others are still active
ActiveProperSubset ==
    /\ animations[MainScene] # <<>>
    /\ Range(animations[MainScene]) # Range(original_animations[MainScene])
    /\ current_time[MainScene] > 0

\* C5: no entity is in the entity list of two scenes, and the back-reference
\* of an entity names the scene whose list holds it, if any.
EntityInOneScene ==
    \A e \in Entities :
        /\ ~(Contains(objects["S1"], e) /\ Contains(objects["S2"], e))
        /\ \A s \in Scenes : Contains(objects[s], e) => scene_of[e] = s
        /\ scene_of[e] # NoScene => Contains(objects[scene_of[e]], e)

\* C8: a replay() that directly follows a replay() changes nothing: the same
\* active list, every progress 0, Timeline elapsed 0 after both.
ReplayIdempotent ==
    [][(JustReplayed /\ lastOp' = "replay_again") =>
          /\ animations' = animations
          /\ elapsed' = elapsed
          /\ \A a \in Range(animations'[MainScene]) : elapsed'[a] = 0
          /\ current_time[MainScene] = 0 /\ current_time'[MainScene] = 0
          /\ tl_state' = tl_state]_vars

\* C8, the case: replay() twice in a row on a scene whose active list had lost
\* its first animation before
ReplayedTwice ==
    /\ lastOp = "replay_again"
    /\ Len(animations[MainScene]) = 2
    /\ animations[MainScene] # original_animations[MainScene]

\* C9: the entity list never holds an entity twice, and add() of entities that
\* are all listed already (or a repeated argument) leaves the list as it is:
\* add() only appends the arguments not yet listed, each once.
AddIdempotent ==
    \A s \in Scenes :
        /\ NoDup(objects[s])
        /\ \A objs \in ArgLists :
              LET after == AddLoop(s, objs, objects[s], scene_of).objects
              IN  /\ NoDup(after)
                  /\ SubSeq(after, 1, Len(objects[s])) = objects[s]
                  /\ Len(after) = Len(objects[s])
                        + Cardinality(Range(objs) \ Range(objects[s]))
                  /\ Range(objs) \subseteq Range(objects[s]) => after = objects[s]

\* C9, the case: add() was called with an entity already listed or repeated,
\* on a scene that holds both entities
AddedAgain ==
    /\ lastOp = "add_again"
    /\ Len(objects[MainScene]) = 2
    /\ Len(objects["S2"]) = 2

\* C10: the Timeline's elapsed time never decreases while playing, does not
\* change while paused or stopped, and only replay sets it back to zero; no
\* other operation stops the Timeline.
TimelineMonotone ==
    [][\A s \in Scenes :
          /\ current_time'[s] < current_time[s] => lastOp' \in {"replay", "replay_again"}
          /\ (tl_state[s] # "playing" /\ current_time'[s] # current_time[s])
                => lastOp' \in {"replay", "replay_again"}
          /\ ~(tl_state[s] # "stopped" /\ tl_state'[s] = "stopped")]_vars


\* what holds of the counters of a record_play at every step
RecordPlayCounts ==
    LET s == MainScene
    IN  pc[s] \in {"main", "tail", "done"} =>
          /\ frame_count[s] <= MaxFrames
          /\ frames[s] = frame_count[s] + (fps[s] - tail_left[s])
          \* the main loop goes on exactly while a frame is still foreseen
          /\ pc[s] = "main" /\ expect_n[s] >= 0 =>
                (LoopCondition(s) <=> frame_count[s] < expect_n[s])
          \* it is left at the first frame count with an empty active list, or
          \* at MaxFrames
          /\ pc[s] \in {"tail", "done"} =>
                /\ animations[s] = <<>> \/ frame_count[s] = MaxFrames
                /\ expect_n[s] >= 0 => frame_count[s] = expect_n[s]
          /\ pc[s] = "done" =>
                /\ frames[s] = frame_count[s] + fps[s]
                /\ ~recording[s]

\* the steps record_play has left at most: main-loop frames up to the limit,
\* trailing frames, and the two hand-overs (loop exit, end)
StepsLeft(s) ==
    (MaxFrames - frame_count[s]) + tail_left[s]
        + (CASE pc[s] = "main" -> 2 [] pc[s] = "tail" -> 1 [] OTHER -> 0)

\* C6: record_play always terminates (every step of a running recording is
\* followed by another until it is done, and each lowers StepsLeft), with
\* n <= MaxFrames main-loop frames followed by exactly fps trailing frames
\* (n + fps in total), where n is the first frame count at which the active
\* list is empty, or MaxFrames; for animations that all finish after
\* D <= MaxFrames fixed-delta updates, n = D.
RecordPlayTerminates ==
    /\ [](RecordPlayCounts /\ StepsLeft(MainScene) >= 0)
    /\ [](pc[MainScene] \in {"main", "tail"} => ENABLED RecordStep(MainScene))
    /\ [][pc[MainScene] \in {"main", "tail"}
             => StepsLeft(MainScene)' < StepsLeft(MainScene)]_vars

\* C6 as a liveness property, under the fairness of straight-line code
RecordPlayEventuallyDone ==
    (pc[MainScene] = "main") ~> (pc[MainScene] = "done")

\* C6, the case: a recording that ran into the safety limit with an animation
\* that does not finish within MaxFrames frames, on a scene that is not paused
RecordedToTheLimit ==
    /\ pc[MainScene] = "done"
    /\ frame_count[MainScene] = MaxFrames
    /\ ~paused[MainScene]
    /\ frames[MainScene] = MaxFrames + fps[MainScene]

\* C7: in every trailing frame of record_play every entity is drawn static.
TailFramesStatic ==
    lastOp = "tail_frame" =>
        \A k \in DOMAIN calls : calls[k][1] # "draw_animated_vector"

----------------------------------------------------------------------------
(***************************************************************************)
(* Properties of the loops.                                                *)
(***************************************************************************)
\* the progress of a after one update(dt) from the progress el
Advanced(a, el, dt) == IF el + dt >= Duration(a) THEN Duration(a) ELSE el + dt

\* the state a running iteration of s has reached is the one _update leaves
\* from the state the iteration began in
FullyUpdated(s) ==
    LET f == frame[s]
    IN  /\ current_time[s] =
              f.current_time + (IF tl_state[s] = "playing" THEN f.dt ELSE 0)
        /\ NoDup(f.animations) =>
              \A a \in AllAnims :
                  elapsed[a] = IF a \in Range(f.animations)
                               THEN Advanced(a, f.elapsed[a], f.dt)
                               ELSE f.elapsed[a]

\* C11, the states inside an iteration: nothing has advanced before the
\* Timeline; while the animations advance the Timeline has advanced, the
\* animations before the loop index have advanced by dt and the others not
\* yet; the state _render observes is fully updated (or, paused, untouched).
IterationInOrder(s) ==
    LET f == frame[s]
    IN  /\ pc[s] = "timeline" =>
              current_time[s] = f.current_time /\ elapsed = f.elapsed
        /\ pc[s] = "anims" =>
              /\ current_time[s] =
                    f.current_time + (IF tl_state[s] = "playing" THEN f.dt ELSE 0)
              /\ animations[s] = f.animations
              /\ NoDup(f.animations) =>
                    \A k \in DOMAIN f.animations :
                        elapsed[f.animations[k]] =
                            IF k < f.i
                            THEN Advanced(f.animations[k], f.elapsed[f.animations[k]], f.dt)
                            ELSE f.elapsed[f.animations[k]]
        /\ pc[s] = "render" =>
              IF paused[s]
              THEN /\ current_time[s] = f.current_time
                   /\ elapsed = f.elapsed
                   /\ animations[s] = f.animations
              ELSE FullyUpdated(s)

\* C11: within one iteration of the show loop or of the record loop the
\* Timeline is advanced by dt before any animation, every active animation
\* is advanced by dt, and _render is invoked only after all of them: a render
\* pass never observes a partly advanced state.
FrameOrdered ==
    /\ [](\A s \in Scenes : IterationInOrder(s))
    /\ [][\A s \in Scenes :
             calls' # <<>> /\ pc[s] # "idle" => pc[s] = "render"]_vars

\* C11, the case: _render is about to run in an iteration of the show loop of
\* play() that advanced two animations
RenderAfterTwoAdvanced ==
    /\ pc[MainScene] = "render"
    /\ frame[MainScene].back = "show"
    /\ ~paused[MainScene]
    /\ tl_state[MainScene] = "playing"
    /\ Len(frame[MainScene].animations) = 2
    /\ NoDup(frame[MainScene].animations)
    /\ frame[MainScene].dt > 0

\* the state at the end of the update steps is what _update as a whole leaves
IterationMatchesUpdate ==
    \A s \in Scenes :
        pc[s] = "render" =>
            LET f == frame[s]
                r == UpdateResult(paused[s], tl_state[s], f.current_time,
                                  f.animations, f.elapsed, f.dt)
            IN  /\ current_time[s] = r.current_time
                /\ elapsed = r.elapsed
                /\ animations[s] = r.animations

\* the entity a draw call draws
DrawnEntity(c) == IF c[1] = "draw_vector" THEN c[2] ELSE AnimTarget(c[2])

\* C12: a render pass draws every entity of the scene exactly once, in the
\* order of the entity list (whatever the order of the animation lists), and
\* issues exactly one flip, as its last call.
DrawOrder ==
    calls # <<>> =>
        LET draws == SelectSeq(calls, LAMBDA c :
                         c[1] \in {"draw_vector", "draw_animated_vector"})
        IN  /\ Len(draws) = Len(objects[MainScene])
            /\ \A k \in DOMAIN draws : DrawnEntity(draws[k]) = objects[MainScene][k]
            /\ NoDup(objects[MainScene])
            /\ Cardinality({k \in DOMAIN calls : calls[k][1] = "flip"}) = 1
            /\ calls[Len(calls)][1] = "flip"

\* C12, the case: a render pass of a scene that lists e2 before the animated
\* e1, with an active list that is no longer in registration order
DrawnInInsertionOrder ==
    /\ calls # <<>>
    /\ objects[MainScene] = <<"e2", "e1">>
    /\ DrawnAnimated("e1")
    /\ Len(animations[MainScene]) = 2
    /\ animations[MainScene] # original_animations[MainScene]

\* C13: clear() empties the entity list and the active list, sets the
\* back-reference of every entity it held to none, and leaves the original
\* list, every animation's progress, the Timeline, the camera, the paused
\* flag (and the other scene's lists) as they were.
ClearEffect ==
    [][lastOp' = "clear" =>
          /\ objects' = [objects EXCEPT ![MainScene] = <<>>]
          /\ animations' = [animations EXCEPT ![MainScene] = <<>>]
          /\ \A e \in Entities :
                scene_of'[e] = IF Contains(objects[MainScene], e)
                               THEN NoScene ELSE scene_of[e]
          /\ original_animations' = original_animations
          /\ elapsed' = elapsed
          /\ current_time' = current_time /\ tl_state' = tl_state
          /\ camera' = camera
          /\ paused' = paused]_vars

\* C13, the case: clear() of a paused scene with a moved camera, a Timeline
\* that has run, animations in progress and an entity that it held
ClearedBusyScene ==
    /\ lastOp = "clear"
    /\ original_animations[MainScene] # <<>>
    /\ \E a \in Range(original_animations[MainScene]) :
           elapsed[a] > 0 /\ elapsed[a] < Duration(a)
    /\ current_time[MainScene] > 0
    /\ paused[MainScene]
    /\ camera[MainScene] = "moved"
    /\ Contains(objects["S2"], "e1") /\ scene_of["e1"] = NoScene
    /\ scene_of["e2"] = "S2"

\* what holds of a record session whose fps argument is positive: it raises
\* nothing, captures total_frames frames, writes iff it captured one, and
\* ends with the recording flag cleared
RecordWritesIffFrames ==
    \A s \in Scenes :
        (session[s].kind = "record" /\ fps[s] > 0) =>
            /\ pc[s] # "error"
            /\ pc[s] = "done" =>
                  /\ frames[s] = session[s].total
                  /\ saved[s] <=> frames[s] > 0
                  /\ ~recording[s]

\* C16: a record session with int(duration * fps) = 0 raises no error,
\* captures no frame, writes no file and ends with the recording flag
\* cleared; a record session writes a file if and only if it captured at
\* least one frame.
ZeroFramesNoOp ==
    \A s \in Scenes :
        session[s].kind = "record" =>
            /\ session[s].total = 0 =>
                  /\ pc[s] # "error"
                  /\ frames[s] = 0 /\ ~saved[s]
                  /\ pc[s] \notin {"record", "timeline", "anims", "render"}
                        => ~recording[s]
            /\ pc[s] = "done" => (saved[s] <=> frames[s] > 0)

\* C20: a non-paused update step advances every animation that was active
\* when it began by dt exactly once (also when several finish in it) and
\* removes only after all have advanced; it leaves in the active list exactly
\* the animations that were active and are still unfinished, in their order.
\* An animation leaves the active list only so, or through clear().
UpdateStepEffect ==
    /\ [](\A s \in Scenes :
            (pc[s] = "render" /\ ~paused[s] /\ NoDup(frame[s].animations)) =>
                LET f == frame[s]
                IN  /\ \A a \in AllAnims :
                          elapsed[a] = IF a \in Range(f.animations)
                                       THEN Advanced(a, f.elapsed[a], f.dt)
                                       ELSE f.elapsed[a]
                    /\ animations[s] =
                          SelectSeq(f.animations, LAMBDA a : elapsed[a] < Duration(a)))
    /\ [][\A s \in Scenes :
             (\E a \in Range(animations[s]) : a \notin Range(animations'[s])) =>
                 \/ lastOp' = "clear"
                 \/ /\ pc[s] = "anims" /\ pc'[s] = "render"
                    /\ frame[s].i = Len(frame[s].animations) + 1
                    /\ animations[s] = frame[s].animations
                    /\ elapsed' = elapsed]_vars

\* C20, the case: an update step of a scene that is not paused, in which two
\* animations have finished together and have been removed
TwoFinishedTogether ==
    /\ pc[MainScene] = "render"
    /\ ~paused[MainScene]
    /\ Len(frame[MainScene].animations) = 2
    /\ NoDup(frame[MainScene].animations)
    /\ Len(frame[MainScene].finished) = 2
    /\ animations[MainScene] = <<>>

\* the list of the twins of a list of animations
TwinSeq(seq) == [i \in DOMAIN seq |-> Twin(seq[i])]

\* s is between two iterations of the loop of a play() session
InPlaySession(s) == pc[s] = "show" /\ tl_state[s] = "playing"

\* s is between two iterations of a capture loop, or past its last one
InCapture(s) ==
    \/ session[s].kind = "record" /\ pc[s] \in {"record", "done"}
    \/ session[s].kind = "none" /\ pc[s] \in {"main", "tail"}

\* the iterations the capture loop of s has run, and its fixed delta
CaptureCount(s) == IF session[s].kind = "record" THEN session[s].n ELSE frame_count[s]
CaptureDt(s) == IF session[s].kind = "record" THEN session[s].dt ELSE FrameTime(fps[s])

AtFrameBoundary(s) == pc[s] \notin {"timeline", "anims", "render"}

\* C18: at every frame boundary of every session the Timeline agrees with
\* the animations: the progress of each animation of the active list is
\* min(Timeline elapsed time, its duration).
TimelineAgrees ==
    \A s \in Scenes :
        AtFrameBoundary(s) =>
            \A a \in Range(animations[s]) :
                elapsed[a] = Min(current_time[s], Duration(a))

\* the step from the current state is a forward step of exactly one step
\* size that leaves s paused: the Timeline moves by StepSize if it is playing,
\* every active animation by StepSize (up to its duration), the active list
\* stays
SingleStepForward(s) ==
    /\ paused'[s]
    /\ animations'[s] = animations[s]
    /\ tl_state'[s] = tl_state[s]
    /\ current_time'[s] =
          current_time[s] + (IF tl_state[s] = "playing" THEN StepSize ELSE 0)
    /\ NoDup(animations[s]) =>
          \A a \in AllAnims :
              elapsed'[a] = IF a \in Range(animations[s])
                            THEN Advanced(a, elapsed[a], StepSize)
                            ELSE elapsed[a]

\* C19: while the scene is paused the loop iterations of show() leave the
\* Timeline's elapsed time, every progress and the active list unchanged;
\* they change only by Left-arrow (stepBackward), R (replay, which unpauses)
\* or Right-arrow (one step of exactly the step size, staying paused); the
\* event that unpauses without replaying (Space) changes nothing but the flag.
PausedLoop ==
    [][LET s == MainScene
           changed == \/ current_time'[s] # current_time[s]
                      \/ elapsed' # elapsed
                      \/ animations'[s] # animations[s]
           inIteration == \/ pc[s] \in {"timeline", "anims", "render"}
                          \/ pc'[s] \in {"timeline", "anims", "render"}
           byReplay == lastOp' \in {"replay", "replay_again"}
       IN  (paused[s] /\ pc[s] # "idle") =>
              /\ inIteration => ~changed /\ paused'[s]
              /\ changed =>
                    \/ byReplay
                    \/ lastOp' = "step_backward"
                    \/ SingleStepForward(s)
              /\ byReplay => ~paused'[s]
              /\ lastOp' = "step_backward" => paused'[s]
              /\ (~paused'[s] /\ ~byReplay) =>
                    /\ ~changed
                    /\ objects' = objects /\ scene_of' = scene_of
                    /\ original_animations' = original_animations
                    /\ tl_state' = tl_state
                    /\ camera' = camera]_vars

\* C19, the case: an iteration of the loop of a paused play() session, with
\* an animation in progress, has skipped the update and is about to render
PausedIteration ==
    /\ pc[MainScene] = "render"
    /\ paused[MainScene]
    /\ frame[MainScene].i = 0
    /\ tl_state[MainScene] = "playing"
    /\ current_time[MainScene] > 0
    /\ animations[MainScene] # <<>>
    /\ \E a \in Range(animations[MainScene]) :
           elapsed[a] > 0 /\ elapsed[a] < Duration(a)

----------------------------------------------------------------------------
(***************************************************************************)
(* Properties of the constructor.                                          *)
(***************************************************************************)
\* C14: Scene(...) with a width or a height that is not strictly positive
\* fails with a configuration error, and no Scene is created.
ViewportValidated ==
    (ctor.result # "none" /\ (ctor.width <= 0 \/ ctor.height <= 0)) =>
        /\ ctor.result \in {"ValueError", "ConfigurationError"}
        /\ ctor.fields = {}

\* C15: Scene(...) with a dim outside {2, 3} fails with a configuration error
\* (ValueError) before any attribute of the scene exists, and with dim 2 or 3
\* it does not fail on account of dim.
DimValidated ==
    ctor.result # "none" =>
        /\ ctor.dim \notin {2, 3} => ctor.result = "ValueError" /\ ctor.fields = {}
        /\ ctor.dim \in {2, 3} => ctor.result # "ValueError"
        /\ ctor.result = "Scene" => ctor.fields = SceneFields

\* C15, the case: a constructor call with dim above 3 and a valid viewport
\* has failed
DimRejected ==
    /\ ctor.result = "ValueError"
    /\ ctor.dim > 3
    /\ ctor.width > 0 /\ ctor.height > 0

=============================================================================
